---------------------------- MODULE Spec2Model ----------------------------
(***************************************************************************)
(* definitions.h of joctomap-natives: the JNI identifier constants of the  *)
(* bridge, modelled as the text of the header and the C preprocessor that  *)
(* reads it.  A character is a one-character string, a line is a sequence  *)
(* of characters, the header is the sequence of its lines.  A translation  *)
(* unit includes the header up to MaxIncludes times and, between two       *)
(* inclusions, uses the identifiers the header names; the preprocessor     *)
(* reads the header one line at a time.                                    *)
(***************************************************************************)
EXTENDS Integers, Sequences, FiniteSets, TLC

\* How many times the translation unit includes definitions.h.
MaxIncludes == 2

---------------------------------------------------------------------------
\* The text of definitions.h, line by line.

\* lines 1-5
LicenseComment ==
  <<
    <<"/","*">>,
    <<" ","*"," ","T","o"," ","c","h","a","n","g","e"," ","t","h","i","s",
      " ","l","i","c","e","n","s","e"," ","h","e","a","d","e","r",","," ",
      "c","h","o","o","s","e"," ","L","i","c","e","n","s","e"," ","H","e",
      "a","d","e","r","s"," ","i","n"," ","P","r","o","j","e","c","t"," ",
      "P","r","o","p","e","r","t","i","e","s",".">>,
    <<" ","*"," ","T","o"," ","c","h","a","n","g","e"," ","t","h","i","s",
      " ","t","e","m","p","l","a","t","e"," ","f","i","l","e",","," ","c",
      "h","o","o","s","e"," ","T","o","o","l","s"," ","|"," ","T","e","m",
      "p","l","a","t","e","s">>,
    <<" ","*"," ","a","n","d"," ","o","p","e","n"," ","t","h","e"," ","t",
      "e","m","p","l","a","t","e"," ","i","n"," ","t","h","e"," ","e","d",
      "i","t","o","r",".">>,
    <<" ","*","/">>
  >>

\* lines 7-12
FileComment ==
  <<
    <<"/","*"," ">>,
    <<" ","*"," ","F","i","l","e",":"," "," "," ","d","e","f","i","n","i",
      "t","i","o","n","s",".","h">>,
    <<" ","*"," ","A","u","t","h","o","r",":"," ","a","d","r","i","a","n",
      ".","g","o","n","z","a","l","e","z">>,
    <<" ","*">>,
    <<" ","*"," ","C","r","e","a","t","e","d"," ","o","n"," ","3","1"," ",
      "d","e"," ","m","a","y","o"," ","d","e"," ","2","0","1","6",","," ",
      "1","8",":","3","8">>,
    <<" ","*","/">>
  >>

\* lines 6, 13, 16, 24, 30, 33, 37
Blank == << >>

\* line 14
DEFINITIONS_H_ifndef ==
    <<"#","i","f","n","d","e","f"," ","D","E","F","I","N","I","T","I","O",
      "N","S","_","H">>

\* line 15, with the guard macro misspelt
DEFINITIONS_H_misspelt ==
    <<"#","d","e","f","i","n","e"," ","D","E","F","I","N","I","T","I","O",
      "N","_","H">>

\* line 15
DEFINITIONS_H ==
    <<"#","d","e","f","i","n","e"," ","D","E","F","I","N","I","T","I","O",
      "N","S","_","H">>

\* line 17
Comment_Classes ==
    <<"/","/","C","l","a","s","s","e","s">>

\* line 18, written as a class path instead of a field descriptor
CLS_STRING_asPath ==
    <<"#","d","e","f","i","n","e"," ","C","L","S","_","S","T","R","I","N",
      "G"," ","\"","j","a","v","a","/","l","a","n","g","/","S","t","r","i",
      "n","g","\"">>

\* line 18
CLS_STRING ==
    <<"#","d","e","f","i","n","e"," ","C","L","S","_","S","T","R","I","N",
      "G"," ","\"","L","j","a","v","a","/","l","a","n","g","/","S","t","r",
      "i","n","g",";","\"">>

\* line 19
CLS_LEAFBBXITERATOR ==
    <<"#","d","e","f","i","n","e"," ","C","L","S","_","L","E","A","F","B",
      "B","X","I","T","E","R","A","T","O","R"," ","\"","e","s","/","u","s",
      "c","/","c","i","t","i","u","s","/","l","a","b","/","j","o","c","t",
      "o","m","a","p","/","i","t","e","r","a","t","o","r","s","/","L","e",
      "a","f","B","B","X","I","t","e","r","a","t","o","r","\"">>

\* line 20, written with the dots of a Java class name
CLS_POINT3D_dotted ==
    <<"#","d","e","f","i","n","e"," ","C","L","S","_","P","O","I","N","T",
      "3","D"," ","\"","e","s",".","u","s","c",".","c","i","t","i","u","s",
      ".","l","a","b",".","m","o","t","i","o","n","p","l","a","n","n","e",
      "r",".","c","o","r","e",".","s","p","a","t","i","a","l",".","P","o",
      "i","n","t","3","D","\"">>

\* line 20
CLS_POINT3D ==
    <<"#","d","e","f","i","n","e"," ","C","L","S","_","P","O","I","N","T",
      "3","D"," ","\"","e","s","/","u","s","c","/","c","i","t","i","u","s",
      "/","l","a","b","/","m","o","t","i","o","n","p","l","a","n","n","e",
      "r","/","c","o","r","e","/","s","p","a","t","i","a","l","/","P","o",
      "i","n","t","3","D","\"">>

\* line 21
CLS_JOCTREENODE ==
    <<"#","d","e","f","i","n","e"," ","C","L","S","_","J","O","C","T","R",
      "E","E","N","O","D","E"," ","\"","e","s","/","u","s","c","/","c","i",
      "t","i","u","s","/","l","a","b","/","j","o","c","t","o","m","a","p",
      "/","o","c","t","r","e","e","/","J","O","c","t","r","e","e","N","o",
      "d","e","\"">>

\* line 22
CLS_JOCTREEKEY ==
    <<"#","d","e","f","i","n","e"," ","C","L","S","_","J","O","C","T","R",
      "E","E","K","E","Y"," ","\"","e","s","/","u","s","c","/","c","i","t",
      "i","u","s","/","l","a","b","/","j","o","c","t","o","m","a","p","/",
      "o","c","t","r","e","e","/","J","O","c","t","r","e","e","K","e","y",
      "\"">>

\* line 23, with the value of line 21 pasted
CLS_JOCTREE_pasted ==
    <<"#","d","e","f","i","n","e"," ","C","L","S","_","J","O","C","T","R",
      "E","E"," ","\"","e","s","/","u","s","c","/","c","i","t","i","u","s",
      "/","l","a","b","/","j","o","c","t","o","m","a","p","/","o","c","t",
      "r","e","e","/","J","O","c","t","r","e","e","N","o","d","e","\"">>

\* line 23
CLS_JOCTREE ==
    <<"#","d","e","f","i","n","e"," ","C","L","S","_","J","O","C","T","R",
      "E","E"," ","\"","e","s","/","u","s","c","/","c","i","t","i","u","s",
      "/","l","a","b","/","j","o","c","t","o","m","a","p","/","o","c","t",
      "r","e","e","/","J","O","c","t","r","e","e","\"">>

\* line 25
Comment_Fields ==
    <<"/","/","F","i","e","l","d","s">>

\* line 26
FIELD_PATH ==
    <<"#","d","e","f","i","n","e"," ","F","I","E","L","D","_","P","A","T",
      "H"," ","\"","p","a","t","h","\"">>

\* line 27, with the quotes left out
FIELD_X_unquoted ==
    <<"#","d","e","f","i","n","e"," ","F","I","E","L","D","_","X"," ","x">>

\* line 27
FIELD_X ==
    <<"#","d","e","f","i","n","e"," ","F","I","E","L","D","_","X"," ","\"",
      "x","\"">>

\* line 28, with the value of line 27 pasted
FIELD_Y_pasted ==
    <<"#","d","e","f","i","n","e"," ","F","I","E","L","D","_","Y"," ","\"",
      "x","\"">>

\* line 28
FIELD_Y ==
    <<"#","d","e","f","i","n","e"," ","F","I","E","L","D","_","Y"," ","\"",
      "y","\"">>

\* line 29
FIELD_Z ==
    <<"#","d","e","f","i","n","e"," ","F","I","E","L","D","_","Z"," ","\"",
      "z","\"">>

\* line 31
Comment_Methods ==
    <<"/","/","M","e","t","h","o","d","s">>

\* line 32, naming the static initialiser instead of the constructor
METHOD_CONSTRUCTOR_clinit ==
    <<"#","d","e","f","i","n","e"," ","M","E","T","H","O","D","_","C","O",
      "N","S","T","R","U","C","T","O","R"," ","\"","<","c","l","i","n","i",
      "t",">","\"">>

\* line 32
METHOD_CONSTRUCTOR ==
    <<"#","d","e","f","i","n","e"," ","M","E","T","H","O","D","_","C","O",
      "N","S","T","R","U","C","T","O","R"," ","\"","<","i","n","i","t",">",
      "\"">>

\* line 34
Comment_Signatures ==
    <<"/","/","S","i","g","n","a","t","u","r","e","s">>

\* line 35
SIGNATURE_FLOAT ==
    <<"#","d","e","f","i","n","e"," ","S","I","G","N","A","T","U","R","E",
      "_","F","L","O","A","T"," ","\"","F","\"">>

\* line 36, with the value of line 35 pasted
SIGNATURE_INT_pasted ==
    <<"#","d","e","f","i","n","e"," ","S","I","G","N","A","T","U","R","E",
      "_","I","N","T"," ","\"","F","\"">>

\* line 36
SIGNATURE_INT ==
    <<"#","d","e","f","i","n","e"," ","S","I","G","N","A","T","U","R","E",
      "_","I","N","T"," ","\"","I","\"">>

\* line 38
DEFINITIONS_H_endif ==
    <<"#","e","n","d","i","f"," ","/","*"," ","D","E","F","I","N","I","T",
      "I","O","N","S","_","H"," ","*","/">>

\* The 38 lines of the header in the order of the file.
Header ==
  LicenseComment \o <<Blank>> \o FileComment \o
  << Blank,
     DEFINITIONS_H_ifndef,
     DEFINITIONS_H,
     Blank,
     Comment_Classes,
     CLS_STRING,
     CLS_LEAFBBXITERATOR,
     CLS_POINT3D,
     CLS_JOCTREENODE,
     CLS_JOCTREEKEY,
     CLS_JOCTREE,
     Blank,
     Comment_Fields,
     FIELD_PATH,
     FIELD_X,
     FIELD_Y,
     FIELD_Z,
     Blank,
     Comment_Methods,
     METHOD_CONSTRUCTOR,
     Blank,
     Comment_Signatures,
     SIGNATURE_FLOAT,
     SIGNATURE_INT,
     Blank,
     DEFINITIONS_H_endif >>

---------------------------------------------------------------------------
\* The preprocessor's reading of one line.

WhiteSpace == {" ", "\t"}

Digits == {"0","1","2","3","4","5","6","7","8","9"}

Letters ==
  {"a","b","c","d","e","f","g","h","i","j","k","l","m",
   "n","o","p","q","r","s","t","u","v","w","x","y","z",
   "A","B","C","D","E","F","G","H","I","J","K","L","M",
   "N","O","P","Q","R","S","T","U","V","W","X","Y","Z","_"}

IdentChars == Letters \cup Digits

\* The least element of a set of positions, none if the set is empty.
First(S, none) ==
  IF S = {} THEN none ELSE CHOOSE x \in S : \A y \in S : x <= y

\* The k-th smallest element of a set of positions.
Kth(S, k) == CHOOSE x \in S : Cardinality({y \in S : y < x}) = k - 1

\* The character at position j stands after an odd number of backslashes,
\* that is, it is escaped.
Escaped(s, j) ==
  LET k == First({d \in 1..j : j - d = 0 \/ s[j - d] # "\\"}, j)
  IN  (k - 1) % 2 = 1

\* The line with its comments taken out.  mode is "code", "str" (inside a
\* string literal) or "block" (inside a /* */ comment, which may have been
\* opened on an earlier line).  A comment counts as one space.
RECURSIVE Scan(_, _, _, _)
Scan(line, i, mode, acc) ==
  LET n == Len(line)
  IN  CASE mode = "block" ->
             LET e == First({j \in i..(n - 1) :
                               line[j] = "*" /\ line[j + 1] = "/"}, 0)
             IN  IF e = 0
                 THEN [text |-> acc, inComment |-> TRUE]
                 ELSE Scan(line, e + 2, "code", Append(acc, " "))
        [] mode = "str" ->
             LET e == First({j \in i..n :
                               line[j] = "\"" /\ ~Escaped(line, j)}, n)
             IN  Scan(line, e + 1, "code", acc \o SubSeq(line, i, e))
        [] OTHER ->
             LET e == First({j \in i..n :
                               \/ line[j] = "\""
                               \/ /\ line[j] = "/"
                                  /\ j < n
                                  /\ line[j + 1] \in {"/", "*"}}, n + 1)
                 head == acc \o SubSeq(line, i, e - 1)
             IN  IF e > n
                 THEN [text |-> head, inComment |-> FALSE]
                 ELSE IF line[e] = "\""
                 THEN Scan(line, e + 1, "str", Append(head, "\""))
                 ELSE IF line[e + 1] = "*"
                 THEN Scan(line, e + 2, "block", head)
                 ELSE [text |-> head, inComment |-> FALSE]

\* The first position from i on that holds no white space.
SkipWS(s, i) ==
  First({j \in i..Len(s) : s[j] \notin WhiteSpace}, Len(s) + 1)

\* The first position from i on that holds no identifier character.
IdentEnd(s, i) ==
  First({j \in i..Len(s) : s[j] \notin IdentChars}, Len(s) + 1)

\* The text without the white space around it.
Trim(s) ==
  LET keep == {j \in 1..Len(s) : s[j] \notin WhiteSpace}
  IN  IF keep = {} THEN << >>
      ELSE SubSeq(s, First(keep, 1),
                  CHOOSE x \in keep : \A y \in keep : y <= x)

\* The first position from i on that holds c, Len(s) + 1 if there is none.
IndexOf(s, c, i) == First({j \in i..Len(s) : s[j] = c}, Len(s) + 1)

\* A line whose first token is # is a directive: its keyword and the rest.
Directive(text) ==
  LET h == SkipWS(text, 1)
  IN  IF h <= Len(text) /\ text[h] = "#"
      THEN LET j == SkipWS(text, h + 1)
               k == IdentEnd(text, j)
           IN  [kind |-> SubSeq(text, j, k - 1),
                rest |-> SubSeq(text, k, Len(text))]
      ELSE [kind |-> << >>, rest |-> text]

\* The identifier a directive names (#ifndef NAME, #define NAME ...).
DirectiveName(rest) ==
  LET a == SkipWS(rest, 1)
  IN  SubSeq(rest, a, IdentEnd(rest, a) - 1)

\* What #define records for its name.  The macro is function-like exactly
\* when a "(" follows the name with no space in between; its replacement
\* list then starts after the ")".
Replacement(rest) ==
  LET a == SkipWS(rest, 1)
      b == IdentEnd(rest, a)
      fn == b <= Len(rest) /\ rest[b] = "("
      from == IF fn THEN IndexOf(rest, ")", b) + 1 ELSE b
  IN  [functionLike |-> fn, body |-> Trim(SubSeq(rest, from, Len(rest)))]

ifndef == <<"i","f","n","d","e","f">>
define == <<"d","e","f","i","n","e">>
endif == <<"e","n","d","i","f">>

\* The name a "#define NAME ..." line of the header defines.
MacroName(line) == DirectiveName(Directive(Scan(line, 1, "code", << >>).text).rest)

\* The macro the header's guard tests.
GuardName == MacroName(DEFINITIONS_H_ifndef)

\* A token is one string literal: it opens with a double quote and the
\* next unescaped double quote is its last character.
IsStringLiteral(tok) ==
  /\ Len(tok) >= 2
  /\ tok[1] = "\""
  /\ First({j \in 2..Len(tok) : tok[j] = "\"" /\ ~Escaped(tok, j)}, 0)
       = Len(tok)

\* The characters a string literal denotes: the quotes go, and an escape
\* \c stands for c.
Unescape(s) ==
  LET keep == {j \in 1..Len(s) :
                 ~(s[j] = "\\" /\ ~Escaped(s, j) /\ j < Len(s))}
  IN  IF keep = 1..Len(s) THEN s
      ELSE [k \in 1..Cardinality(keep) |-> s[Kth(keep, k)]]

StringValue(tok) ==
  IF IsStringLiteral(tok) THEN Unescape(SubSeq(tok, 2, Len(tok) - 1))
  ELSE tok

---------------------------------------------------------------------------
\* The state of the preprocessor in one translation unit.

VARIABLES
  pc,         \* the line of the header being read, 0 outside the header
  inComment,  \* a /* comment is open at the start of line pc
  condStack,  \* one entry per open #ifndef: is its group being read
  macros,     \* the macro table: name -> [functionLike, body]
  defLog,     \* the names of the #define directives executed, in order
  includes,   \* completed inclusions of the header
  lastUse     \* the last identifier the unit used and what it became

vars == <<pc, inComment, condStack, macros, defLog, includes, lastUse>>

NoUse == [name |-> << >>, text |-> << >>]

\* The line being read, without comments, and its directive.
Cur == Scan(Header[pc], 1, IF inComment THEN "block" ELSE "code", << >>)
Dir == Directive(Cur.text)

\* Lines are read only while every open conditional group is taken.
Active == \A i \in 1..Len(condStack) : condStack[i]

\* The text an identifier stands for: the replacement list of an
\* object-like macro, rescanned with the macro's own name switched off;
\* any other identifier stays as it is.
RECURSIVE Expand(_, _, _)
Expand(table, name, off) ==
  IF name \in DOMAIN table /\ name \notin off /\ ~table[name].functionLike
  THEN Expand(table, table[name].body, off \cup {name})
  ELSE name

\* The identifiers the translation unit uses: those the header defines.
DefineLines ==
  {i \in 1..Len(Header) :
     Directive(Scan(Header[i], 1, "code", << >>).text).kind = define}
UseNames == {MacroName(Header[i]) : i \in DefineLines}

Init ==
  /\ pc = 0
  /\ inComment = FALSE
  /\ condStack = << >>
  /\ macros = << >>
  /\ defLog = << >>
  /\ includes = 0
  /\ lastUse = NoUse

\* #include "definitions.h" in the translation unit.
BeginInclude ==
  /\ pc = 0
  /\ includes < MaxIncludes
  /\ pc' = 1
  /\ UNCHANGED <<inComment, condStack, macros, defLog, includes, lastUse>>

\* #ifndef NAME opens a group, read when NAME is not a macro.
Ifndef ==
  /\ pc \in 1..Len(Header)
  /\ Dir.kind = ifndef
  /\ condStack' = Append(condStack,
                         Active /\ DirectiveName(Dir.rest) \notin DOMAIN macros)
  /\ pc' = pc + 1
  /\ inComment' = Cur.inComment
  /\ UNCHANGED <<macros, defLog, includes, lastUse>>

\* #define NAME replacement, in a group that is read.
Define ==
  /\ pc \in 1..Len(Header)
  /\ Dir.kind = define
  /\ Active
  /\ macros' = (DirectiveName(Dir.rest) :> Replacement(Dir.rest)) @@ macros
  /\ defLog' = Append(defLog, DirectiveName(Dir.rest))
  /\ pc' = pc + 1
  /\ inComment' = Cur.inComment
  /\ UNCHANGED <<condStack, includes, lastUse>>

\* #endif closes the innermost group.
Endif ==
  /\ pc \in 1..Len(Header)
  /\ Dir.kind = endif
  /\ condStack # << >>
  /\ condStack' = SubSeq(condStack, 1, Len(condStack) - 1)
  /\ pc' = pc + 1
  /\ inComment' = Cur.inComment
  /\ UNCHANGED <<macros, defLog, includes, lastUse>>

\* Any other line: blank, comment, text, or a #define in a skipped group.
SkipLine ==
  /\ pc \in 1..Len(Header)
  /\ Dir.kind \notin {ifndef, endif}
  /\ ~(Dir.kind = define /\ Active)
  /\ pc' = pc + 1
  /\ inComment' = Cur.inComment
  /\ UNCHANGED <<condStack, macros, defLog, includes, lastUse>>

\* The end of the header: back to the including file.
EndInclude ==
  /\ pc = Len(Header) + 1
  /\ pc' = 0
  /\ includes' = includes + 1
  /\ UNCHANGED <<inComment, condStack, macros, defLog, lastUse>>

\* The translation unit uses an identifier outside the header.
Use(name) ==
  /\ pc = 0
  /\ lastUse' = [name |-> name, text |-> Expand(macros, name, {})]
  /\ UNCHANGED <<pc, inComment, condStack, macros, defLog, includes>>

UseAny == \E name \in UseNames : Use(name)

Next ==
  \/ BeginInclude
  \/ Ifndef
  \/ Define
  \/ Endif
  \/ SkipLine
  \/ EndInclude
  \/ UseAny

Spec == Init /\ [][Next]_vars

---------------------------------------------------------------------------
\* What the constants are, read off the macro table.

\* The string constants: every macro but the guard.
Constants == DOMAIN macros \ {GuardName}

\* The string an identifier denotes where it is used.
ValueOf(name) == StringValue(Expand(macros, name, {}))

\* The string the macro defined on a line of the header denotes.
Value(line) == ValueOf(MacroName(line))

HasPrefix(s, p) == Len(s) >= Len(p) /\ SubSeq(s, 1, Len(p)) = p

\* The parts of a string between its slashes.
Segments(v) ==
  LET cuts == {j \in 1..Len(v) : v[j] = "/"}
      cut(k) == IF k = 0 THEN 0
                ELSE IF k > Cardinality(cuts) THEN Len(v) + 1
                ELSE Kth(cuts, k)
  IN  [k \in 1..(Cardinality(cuts) + 1) |->
         SubSeq(v, cut(k - 1) + 1, cut(k) - 1)]

LastSegment(v) == Segments(v)[Len(Segments(v))]

\* package/.../Class: two or more slash-separated Java identifiers.
IsClassPath(v) ==
  LET segs == Segments(v)
  IN  /\ Len(segs) >= 2
      /\ \A k \in 1..Len(segs) :
           /\ segs[k] # << >>
           /\ \A j \in 1..Len(segs[k]) : segs[k][j] \in IdentChars \cup {"$"}
           /\ segs[k][1] \notin Digits

\* Lpackage/.../Class; : the field descriptor of a reference type.
IsReferenceDescriptor(v) ==
  /\ Len(v) >= 3
  /\ v[1] = "L"
  /\ v[Len(v)] = ";"
  /\ IsClassPath(SubSeq(v, 2, Len(v) - 1))

\* The field descriptors of the primitive types.
PrimitiveDescriptors ==
  {<<"Z">>, <<"B">>, <<"C">>, <<"S">>, <<"I">>, <<"J">>, <<"F">>, <<"D">>}

ClsConsts == {n \in Constants : HasPrefix(n, <<"C","L","S","_">>)}
ClassPathConsts == {n \in Constants : IsClassPath(ValueOf(n))}
FieldConsts == {n \in Constants : HasPrefix(n, <<"F","I","E","L","D","_">>)}
MethodConsts == {n \in Constants : HasPrefix(n, <<"M","E","T","H","O","D","_">>)}
SignatureConsts ==
  {n \in Constants : /\ HasPrefix(n, <<"S","I","G","N","A","T","U","R","E","_">>)
                     /\ ValueOf(n) \in PrimitiveDescriptors}

\* The groups of the inventory a constant belongs to.
GroupsOf(n) ==
  {g \in {ClassPathConsts, FieldConsts, MethodConsts, SignatureConsts} :
     n \in g}

\* The unit has included the header and its last use was of the macro this
\* line defines, which was replaced.
Used(line) ==
  /\ includes >= 1
  /\ pc = 0
  /\ lastUse.name = MacroName(line)
  /\ lastUse.name \in DOMAIN macros
  /\ lastUse.text = macros[lastUse.name].body

NoDuplicates(s) == \A i, j \in 1..Len(s) : s[i] = s[j] => i = j

---------------------------------------------------------------------------
\* C1: once the header is included, CLS_JOCTREE is exactly
\* "es/usc/citius/lab/joctomap/octree/JOctree", and CLS_JOCTREENODE,
\* CLS_JOCTREEKEY, CLS_LEAFBBXITERATOR and CLS_POINT3D are slash-separated
\* fully-qualified paths ending in JOctreeNode, JOctreeKey, LeafBBXIterator
\* and Point3D.
C1_ProjectClassPaths ==
  includes >= 1 =>
    /\ Value(CLS_JOCTREE) =
         <<"e","s","/","u","s","c","/","c","i","t","i","u","s","/","l","a",
           "b","/","j","o","c","t","o","m","a","p","/","o","c","t","r","e",
           "e","/","J","O","c","t","r","e","e">>
    /\ IsClassPath(Value(CLS_JOCTREENODE))
    /\ LastSegment(Value(CLS_JOCTREENODE)) = <<"J","O","c","t","r","e","e","N","o","d","e">>
    /\ IsClassPath(Value(CLS_JOCTREEKEY))
    /\ LastSegment(Value(CLS_JOCTREEKEY)) = <<"J","O","c","t","r","e","e","K","e","y">>
    /\ IsClassPath(Value(CLS_LEAFBBXITERATOR))
    /\ LastSegment(Value(CLS_LEAFBBXITERATOR)) = <<"L","e","a","f","B","B","X","I","t","e","r","a","t","o","r">>
    /\ IsClassPath(Value(CLS_POINT3D))
    /\ LastSegment(Value(CLS_POINT3D)) = <<"P","o","i","n","t","3","D">>

C1_Witness == Used(CLS_JOCTREE)

\* C2: once the header is included, SIGNATURE_FLOAT is the one-character
\* string "F", SIGNATURE_INT the one-character string "I", and CLS_STRING
\* is "Ljava/lang/String;".
C2_TypeSignatures ==
  includes >= 1 =>
    /\ Value(SIGNATURE_FLOAT) = <<"F">>
    /\ Value(SIGNATURE_INT) = <<"I">>
    /\ Value(CLS_STRING) = <<"L","j","a","v","a","/","l","a","n","g","/","S","t","r","i","n","g",";">>

C2_Witness == Used(SIGNATURE_INT)

\* C3 as stated: the constants are exactly 5 class paths, 4 field names,
\* 1 method name and 2 type signatures, each constant in exactly one of
\* these groups, 12 in all.
C3_InventoryOfTwelve ==
  includes >= 1 =>
    /\ Cardinality(ClassPathConsts) = 5
    /\ Cardinality(FieldConsts) = 4
    /\ Cardinality(MethodConsts) = 1
    /\ Cardinality(SignatureConsts) = 2
    /\ \A n \in Constants : Cardinality(GroupsOf(n)) = 1
    /\ Cardinality(Constants) = 12

\* C3 amended: the constants are 5 class paths, 4 field names, 1 method
\* name, 2 primitive type signatures, each in exactly one group, and one
\* constant more, CLS_STRING, the descriptor of a reference type, which is
\* in none of the four groups: 13 in all.
C3_InventoryOfThirteen ==
  includes >= 1 =>
    /\ Cardinality(ClassPathConsts) = 5
    /\ Cardinality(FieldConsts) = 4
    /\ Cardinality(MethodConsts) = 1
    /\ Cardinality(SignatureConsts) = 2
    /\ \A n \in Constants \ {MacroName(CLS_STRING)} :
         Cardinality(GroupsOf(n)) = 1
    /\ MacroName(CLS_STRING) \in Constants
    /\ GroupsOf(MacroName(CLS_STRING)) = {}
    /\ IsReferenceDescriptor(Value(CLS_STRING))
    /\ Cardinality(Constants) = 13

C3_Witness ==
  /\ includes = 1
  /\ pc = 0
  /\ Len(defLog) = Cardinality(Constants) + 1

\* C4: once the header is included, METHOD_CONSTRUCTOR is "<init>" and it
\* is the only method-name constant.
C4_ConstructorName ==
  includes >= 1 =>
    /\ Value(METHOD_CONSTRUCTOR) = <<"<","i","n","i","t",">">>
    /\ MethodConsts = {MacroName(METHOD_CONSTRUCTOR)}

C4_Witness == Used(METHOD_CONSTRUCTOR)

\* C5: every macro the header defines inside its guard is object-like and
\* its replacement is a single string literal, at all times; and a macro,
\* once defined, is never removed or given another replacement, so every
\* use of a constant sees the same value.
C5_ConstantStringMacros ==
  /\ [](\A n \in Constants :
          /\ ~macros[n].functionLike
          /\ IsStringLiteral(macros[n].body))
  /\ [][\A n \in DOMAIN macros :
          n \in DOMAIN macros' /\ macros'[n] = macros[n]]_vars

C5_Witness ==
  /\ includes >= 2
  /\ pc = 0
  /\ lastUse.name \in Constants
  /\ IsStringLiteral(lastUse.text)

\* C6: once the header is included, FIELD_PATH, FIELD_X, FIELD_Y and
\* FIELD_Z are "path", "x", "y" and "z", four different strings.
C6_FieldNames ==
  includes >= 1 =>
    /\ Value(FIELD_PATH) = <<"p","a","t","h">>
    /\ Value(FIELD_X) = <<"x">>
    /\ Value(FIELD_Y) = <<"y">>
    /\ Value(FIELD_Z) = <<"z">>
    /\ Cardinality({Value(FIELD_PATH), Value(FIELD_X),
                    Value(FIELD_Y), Value(FIELD_Z)}) = 4

C6_Witness == Used(FIELD_Y)

\* C7 as stated: once the header is included, every CLS_ constant is a
\* slash-separated class path with no leading L and no trailing ";".
C7_AllClsAreClassPaths ==
  includes >= 1 =>
    \A n \in ClsConsts :
      /\ IsClassPath(ValueOf(n))
      /\ ValueOf(n)[1] # "L"
      /\ ValueOf(n)[Len(ValueOf(n))] # ";"

\* C7 amended: once the header is included, every CLS_ constant other
\* than CLS_STRING is a slash-separated class path with no leading L and
\* no trailing ";", and CLS_STRING is in the other form, a reference
\* descriptor with a leading L and a trailing ";".
C7_ClsFormsButString ==
  includes >= 1 =>
    /\ Cardinality(ClsConsts) = 6
    /\ \A n \in ClsConsts \ {MacroName(CLS_STRING)} :
         /\ IsClassPath(ValueOf(n))
         /\ ValueOf(n)[1] # "L"
         /\ ValueOf(n)[Len(ValueOf(n))] # ";"
    /\ MacroName(CLS_STRING) \in ClsConsts
    /\ IsReferenceDescriptor(Value(CLS_STRING))
    /\ ~IsClassPath(Value(CLS_STRING))

C7_Witness == Used(CLS_STRING)

\* C8: no #define of the header is executed twice for one name, and once
\* the header has been included, reading it again executes no #define and
\* leaves the macro table as it was.
C8_IncludeIdempotent ==
  /\ [](NoDuplicates(defLog))
  /\ [][includes >= 1 => macros' = macros /\ defLog' = defLog]_vars

C8_Witness ==
  /\ includes >= 1
  /\ pc = Len(Header) + 1
  /\ condStack = << >>
  /\ defLog # << >>

=============================================================================
